---- MODULE Spec2Model ----
(***************************************************************************)
(* A model of jameslkingsley/io: the form tree, the two message bags, the  *)
(* validator, the watcher walk, the debounce timers and the feedback       *)
(* projection of src/src/io.js, src/src/bag.js and src/src/validate.js.    *)
(*                                                                         *)
(* JavaScript values are tagged records.  An object is the ordered list of *)
(* its own enumerable entries, an array the sequence of its items.  A      *)
(* dot-joined path string is represented by its split on '.', a non-empty  *)
(* sequence of segments: '' is <<"">>, 'services.0.url' is                 *)
(* <<"services", "0", "url">>.                                             *)
(***************************************************************************)
EXTENDS Integers, Sequences, FiniteSets, TLC

VARIABLES
    form,        \* this.form
    validation,  \* this.validation, the entry list of the rule map
    errors,      \* this.errors.bag
    success,     \* this.success.bag
    feedback,    \* this.feedback
    watchers,    \* this._watchers
    dirty,       \* the watchers the substrate has queued for its next flush
    pending,     \* the mutations of the form since the last flush
    calls,       \* the calls the caller has made on the bags
    updates,     \* the calls the caller has made of update()
    timeouts,    \* this._inputTimeouts, each with the state of its timer
    log,         \* what the last step did and emitted, in order
    last,        \* the last step
    quiet        \* per changed path: time since its last change, pauses since

vars == <<form, validation, errors, success, feedback, watchers, dirty, pending,
          calls, updates, timeouts, log, last, quiet>>

----------------------------------------------------------------------------
(* Bounds of the model.                                                    *)

\* The longest array of records the environment grows form.services to.
MaxLen == 2
\* How far the clock advances in one step.
TimeStep == 1000
\* The mutations of the form the environment makes between two flushes.
MaxPending == 1
\* The calls the caller makes on the two bags directly, and of update().
MaxCalls == 1
MaxUpdates == 1

----------------------------------------------------------------------------
(* JavaScript values.                                                      *)

Undef == [t |-> "undef"]
Null == [t |-> "null"]
Str(s) == [t |-> "str", s |-> s]
Bool(b) == [t |-> "bool", b |-> b]
Num(n) == [t |-> "num", n |-> n]
Arr(items) == [t |-> "arr", items |-> items]
Obj(ents) == [t |-> "obj", ents |-> ents]
Ent(k, v) == [k |-> k, v |-> v]

\* The decimal string of an array index, as Array.prototype.join and
\* String.prototype.replace write it.
IdxStr == <<"0", "1", "2", "3", "4">>
Idx(i) == IdxStr[i + 1]
IsIndexStr(s) == \E i \in 1..Len(IdxStr) : IdxStr[i] = s
IndexOf(s) == CHOOSE i \in 0..(Len(IdxStr) - 1) : IdxStr[i + 1] = s

\* The strings of the model.  The two non-empty texts stand for the classes
\* the url rule separates: one that new URL() rejects, one it accepts.
BadUrl == "not-a-url"
GoodUrl == "https://example.com"

\* JavaScript truthiness (! value).
Truthy(v) ==
    CASE v.t = "undef" -> FALSE
      [] v.t = "null" -> FALSE
      [] v.t = "str" -> v.s # ""
      [] v.t = "bool" -> v.b
      [] v.t = "num" -> v.n # 0
      [] OTHER -> TRUE

HasKey(ents, k) == \E i \in 1..Len(ents) : ents[i].k = k
KeyPos(ents, k) == CHOOSE i \in 1..Len(ents) : ents[i].k = k
Lookup(ents, k) == IF HasKey(ents, k) THEN ents[KeyPos(ents, k)].v ELSE Undef

\* object[key] for a key given as a string.
Prop(v, k) ==
    CASE v.t = "obj" -> Lookup(v.ents, k)
      [] v.t = "arr" ->
            IF IsIndexStr(k) /\ IndexOf(k) < Len(v.items)
            THEN v.items[IndexOf(k) + 1]
            ELSE Undef
      [] OTHER -> Undef

\* Object.assign({}, ents, {k: v}) on an entry list: an existing key keeps
\* its place, a new key goes last.
PutEnt(ents, k, v) ==
    IF HasKey(ents, k)
    THEN [i \in 1..Len(ents) |-> IF ents[i].k = k THEN Ent(k, v) ELSE ents[i]]
    ELSE Append(ents, Ent(k, v))

DelEnt(ents, k) == SelectSeq(ents, LAMBDA e : e.k # k)

Keys(ents) == {ents[i].k : i \in 1..Len(ents)}

----------------------------------------------------------------------------
(* Paths.                                                                  *)

\* Array.prototype.join('.'): the string of an empty array is '', whose
\* split is the one empty segment.
Join(path) == IF path = <<>> THEN <<"">> ELSE path

\* Array.prototype.pop(): nothing happens on an empty array.
Pop(path) == IF path = <<>> THEN <<>> ELSE SubSeq(path, 1, Len(path) - 1)

IsPrefix(p, q) == Len(p) <= Len(q) /\ SubSeq(q, 1, Len(p)) = p

\* _.get(object, 'a.b.c'): walk the segments, undefined once the walk
\* meets null or undefined.
RECURSIVE GetFrom(_, _, _)
GetFrom(v, path, i) ==
    IF i > Len(path) THEN v
    ELSE IF v.t \in {"undef", "null"} THEN Undef
    ELSE GetFrom(Prop(v, path[i]), path, i + 1)

Get(object, path) == GetFrom(object, path, 1)

\* parent[key] = value at an existing concrete path of the tree.
RECURSIVE Assign(_, _, _)
Assign(v, path, new) ==
    IF path = <<>> THEN new
    ELSE IF v.t = "obj"
    THEN Obj(PutEnt(v.ents, Head(path),
                    Assign(Lookup(v.ents, Head(path)), Tail(path), new)))
    ELSE IF v.t = "arr"
    THEN Arr([i \in 1..Len(v.items) |->
                IF i = IndexOf(Head(path)) + 1
                THEN Assign(v.items[i], Tail(path), new)
                ELSE v.items[i]])
    ELSE v

----------------------------------------------------------------------------
(* Io.isObject, Io.isArrayOfObjects.                                       *)

isObject(value) == value.t = "obj"

isArrayOfObjects(value) ==
    /\ value.t = "arr"
    /\ Len(value.items) > 0
    /\ value.items[1].t = "obj"

----------------------------------------------------------------------------
(* Io.startWatching.  A watcher is {path, unwatch}; the observation behind *)
(* the handle keeps the value its getter returned when it was attached.    *)

Watcher(joinedPath, field, root) ==
    [path |-> joinedPath, field |-> field, old |-> Get(root, joinedPath)]

\* A search that never finds the path.
HasWatcher_Never(ws, joinedPath) == FALSE

HasWatcher(ws, joinedPath) == \E i \in 1..Len(ws) : ws[i].path = joinedPath

\* Object.entries(object): of an array, its items under their indices.
Entries(object) ==
    CASE object.t = "obj" -> object.ents
      [] object.t = "arr" ->
            [i \in 1..Len(object.items) |-> Ent(Idx(i - 1), object.items[i])]
      [] OTHER -> <<>>

\* The path pops after a nested map and after an array of records fall
\* through to the join and to the last pop of the loop body, as written.
RECURSIVE WatchEntries(_, _, _, _, _)
RECURSIVE WatchItems(_, _, _, _, _)
startWatching(object, path, ws, root) == WatchEntries(Entries(object), 1, path, ws, root)

WatchItems(items, i, path, ws, root) ==
    IF i > Len(items) THEN ws
    ELSE WatchItems(items, i + 1, path,
                    startWatching(items[i], Append(path, Idx(i - 1)), ws, root),
                    root)

WatchEntries(ents, i, path, ws, root) ==
    IF i > Len(ents) THEN ws
    ELSE
      LET field == ents[i].k
          value == ents[i].v
          p1 == Append(path, field)
          ws1 == IF isObject(value) THEN startWatching(value, p1, ws, root) ELSE ws
          p2 == IF isObject(value) THEN Pop(p1) ELSE p1
          ws2 == IF isArrayOfObjects(value)
                 THEN WatchItems(value.items, 1, p2, ws1, root)
                 ELSE ws1
          p3 == IF isArrayOfObjects(value) THEN Pop(p2) ELSE p2
          joinedPath == Join(p3)
          ws3 == IF HasWatcher(ws2, joinedPath)
                 THEN ws2
                 ELSE Append(ws2, Watcher(joinedPath, field, root))
      IN WatchEntries(ents, i + 1, Pop(p3), ws3, root)

\* A teardown that leaves the last watcher in the list.
stopWatching_LeavesLast(ws) == IF Len(ws) > 1 THEN <<ws[Len(ws)]>> ELSE <<>>

\* Io.stopWatching: every handle is called and the list is emptied.
stopWatching(ws) == <<>>

\* Notifications that stay queued for watchers that were torn down.
Detached_StillQueued(queue) == queue

\* A watcher that was torn down while it was queued does not run: of the
\* queue of the substrate nothing is left after stopWatching.
Detached(queue) == {}

----------------------------------------------------------------------------
(* Bag (src/src/bag.js).  The content of a bag is the set of the entries   *)
(* of its object: no operation of the repository reads the order of its    *)
(* keys.  A field argument is a joined path, <<>> standing for an argument *)
(* that was not given.                                                     *)

\* The texts of the model that contain a colon (String.prototype.includes).
ColonTexts == {"Oops: taken"}
includesColon(m) == m.s \in ColonTexts

\* `${label}: ${message}`
Labelled(label, m) == [t |-> "str", s |-> m.s, label |-> label, of |-> m]

\* A record that stores a message as it is given.
Coerce_AsGiven(message) == message

\* record's coercion of one value: Array.isArray(message) ? message : [message]
Coerce(message) == IF message.t = "arr" THEN message ELSE Arr(<<message>>)

BagHas(bag, field) == \E e \in bag : e.k = field

BagAt(bag, key) == IF BagHas(bag, key) THEN (CHOOSE e \in bag : e.k = key).v ELSE Undef

BagPut(bag, key, value) == {e \in bag : e.k # key} \cup {Ent(key, value)}

BagKeys(bag) == {e.k : e \in bag}

\* Object.assign(this.bag, _.mapValues(messages, ...)): a later entry of
\* the same key overwrites an earlier one.
RECURSIVE AssignAll(_, _, _)
AssignAll(bag, ents, i) ==
    IF i > Len(ents) THEN bag
    ELSE AssignAll(BagPut(bag, ents[i].k, Coerce(ents[i].v)), ents, i + 1)

RECURSIVE SetAll(_, _, _)
SetAll(bag, ents, i) ==
    IF i > Len(ents) THEN bag
    ELSE SetAll(BagPut(bag, ents[i].k, ents[i].v), ents, i + 1)

\* 'services.*.url'.replace('*', index): the first '*' only.
RECURSIVE ReplaceStar(_, _)
ReplaceStar(key, index) ==
    IF key = <<>> THEN <<>>
    ELSE IF Head(key) = "*" THEN <<index>> \o Tail(key)
    ELSE <<Head(key)>> \o ReplaceStar(Tail(key), index)

\* The first character of the texts of the model.
FirstChar(s) ==
    CASE s = "taken" -> "t"
      [] s = "Oops: taken" -> "O"
      [] s = BadUrl -> "n"
      [] s = GoodUrl -> "h"
      [] OTHER -> s

\* Bag.get(field, index): index "" stands for the default null.  this.bag[key][0]
\* is the first message of a list and the first character of a text; the
\* bags of the model hold no empty list.
BagGet(bag, label, field, index) ==
    LET key == IF index # "" THEN ReplaceStar(field, index) ELSE field
        held == BagAt(bag, key)
    IN IF Truthy(held)
       THEN LET first == IF held.t = "arr" /\ Len(held.items) > 0
                         THEN held.items[1]
                         ELSE IF held.t = "str" THEN Str(FirstChar(held.s))
                         ELSE Undef
            IN IF first.t # "str" THEN first
               ELSE IF label # "" /\ ~includesColon(first)
               THEN Labelled(label, first)
               ELSE first
       ELSE Undef

\* Bag.record, Bag.replace, Bag.clear: the new content.
\* The characters of the text Validate throws for a rule it has no method
\* for: `${ruleMethodName}() is not a validator method`.
Letters(word) ==
    CASE word = "in" -> <<"i", "n">>
      [] OTHER -> <<word>>

Characters(text) ==
    Letters(text.method)
        \o <<"(", ")", " ", "i", "s", " ", "n", "o", "t", " ", "a", " ",
             "v", "a", "l", "i", "d", "a", "t", "o", "r", " ",
             "m", "e", "t", "h", "o", "d">>

\* The keys of the characters of a text: '0', '1', ...
Numerals ==
    <<"0", "1", "2", "3", "4", "5", "6", "7", "8", "9",
      "10", "11", "12", "13", "14", "15", "16", "17", "18", "19",
      "20", "21", "22", "23", "24", "25", "26", "27", "28", "29",
      "30", "31", "32", "33", "34", "35", "36", "37", "38", "39">>

\* What _.mapValues iterates over: the entries of an object, and of a text
\* its characters under their positions.
OwnEntries(messages) ==
    IF messages.t = "str" /\ "method" \in DOMAIN messages
    THEN [i \in 1..Len(Characters(messages)) |->
             Ent(<<Numerals[i]>>, Str(Characters(messages)[i]))]
    ELSE Entries(messages)

BagRecord(bag, messages) == AssignAll(bag, OwnEntries(messages), 1)

BagReplace(bag, messages) == SetAll({}, Entries(messages), 1)

ClearsOne(field) == field # <<>> /\ field # <<"">>

\* A clear that deletes nothing when it is given a field.
BagClear_KeepsField(bag, field) == IF ClearsOne(field) THEN bag ELSE {}

BagClear(bag, field) == IF ClearsOne(field) THEN {e \in bag : e.k # field} ELSE {}

\* A notification that goes out before the content is set.
Seen_TooEarly(before, after) == before

\* The content a subscriber finds in the bag when it is notified: each
\* operation sets this.bag and emits afterwards.
Seen(before, after) == after

\* The number of 'update' notifications each call emits.
RecordEmits == 1
ReplaceEmits == 1
ClearEmits(field) == IF ClearsOne(field) THEN 0 ELSE 1

ErrorLabel == "Error"
SuccessLabel == "Success"

----------------------------------------------------------------------------
(* Validate (src/src/validate.js).  A rule string is the sequence of its   *)
(* tokens: the separators "|", ":" and "," and the runs of characters      *)
(* between them.  'required|min:3' is <<"required", "|", "min", ":", "3">>. *)

RuleString(toks) == [t |-> "str", toks |-> toks]

\* String.prototype.split(sep) on a token sequence: the chunks between the
\* separators, an empty chunk where two separators meet.
RECURSIVE SplitFrom(_, _, _, _)
SplitFrom(toks, sep, i, cur) ==
    IF i > Len(toks) THEN <<cur>>
    ELSE IF toks[i] = sep THEN <<cur>> \o SplitFrom(toks, sep, i + 1, <<>>)
    ELSE SplitFrom(toks, sep, i + 1, Append(cur, toks[i]))

Split(toks, sep) == SplitFrom(toks, sep, 1, <<>>)

\* The string of a chunk that holds no separator: one run, or ''.
Text(chunk) == IF chunk = <<>> THEN "" ELSE chunk[1]

includes(chunk, sep) == \E i \in 1..Len(chunk) : chunk[i] = sep

\* Validate.parseRule
parseRule(rule) ==
    LET hasArgument == includes(rule, ":")
    IN [method |-> IF hasArgument THEN Text(Split(rule, ":")[1]) ELSE Text(rule),
        arguments |-> IF hasArgument
                      THEN LET args == Split(Split(rule, ":")[2], ",")
                           IN [i \in 1..Len(args) |-> Text(args[i])]
                      ELSE <<>>]

\* Validate.parseRules: a string is split on '|', a list is taken as it is,
\* and _.map of undefined is the empty list.
parseRules(rules) ==
    LET list == CASE rules.t = "str" -> Split(rules.toks, "|")
                  [] rules.t = "arr" -> [i \in 1..Len(rules.items) |-> rules.items[i].toks]
                  [] OTHER -> <<>>
    IN [i \in 1..Len(list) |-> parseRule(list[i])]

\* _.camelCase on the rule names of the model.
camelCase(method) ==
    CASE method \in {"required_with", "required-with"} -> "requiredWith"
      [] OTHER -> method

\* The predicates of the model: typeof this[name] === 'function'.
Predicates == {"nullable", "array", "object", "url", "boolean", "accepted",
               "required", "string", "min"}

\* Validate.localize: the catalogue text of `validation.${name}` with the
\* data substituted; name is what {name} was replaced by.
localize(name, data) == [t |-> "str", s |-> name, data |-> data, name |-> <<>>]

\* _.lowerCase(field): the words of the path.
lowerCase(field) == SelectSeq(field, LAMBDA seg : seg # "*" /\ seg # "")

\* error.replace('{name}', _.lowerCase(field))
replaceName(error, field) == [error EXCEPT !.name = lowerCase(field)]

\* The lengths of the strings of the model.
StrLen(s) ==
    CASE s = "" -> 0
      [] s = BadUrl -> 9
      [] s = GoodUrl -> 19
      [] OTHER -> 1

\* Number(count) of an argument string; nothing compares below NaN.
IsNumeral(a) == IsIndexStr(a)

Pass == [r |-> "true"]
BreakToNextField == [r |-> "break"]
Throw(error) == [r |-> "throw", error |-> error]

\* A nullable that lets the pipeline go on.
nullable_GoesOn(value) == Pass

nullable(value) == IF ~Truthy(value) THEN BreakToNextField ELSE Pass

array(value) == IF value.t = "arr" THEN Pass ELSE Throw(localize("array", <<>>))

\* typeof value === 'object': objects, arrays and null.
object(value) ==
    IF value.t \in {"obj", "arr", "null"} THEN Pass ELSE Throw(localize("object", <<>>))

\* new URL(value) of the value's string.
url(value) ==
    IF value.t = "str" /\ value.s = GoodUrl THEN Pass ELSE Throw(localize("url", <<>>))

boolean(value) == IF value.t = "bool" THEN Pass ELSE Throw(localize("boolean", <<>>))

accepted(value) ==
    IF value.t = "bool" /\ value.b THEN Pass ELSE Throw(localize("accepted", <<>>))

required(value) ==
    IF value.t = "arr"
    THEN IF Len(value.items) = 0 THEN Throw(localize("required", <<>>)) ELSE Pass
    ELSE IF Truthy(value) THEN Pass ELSE Throw(localize("required", <<>>))

string(value) ==
    IF value.t \in {"null", "str"} THEN Pass ELSE Throw(localize("string", <<>>))

min(value, arguments) ==
    LET given == Len(arguments) > 0 /\ IsNumeral(arguments[1])
        count == IF given THEN IndexOf(arguments[1]) ELSE 0
    IN CASE value.t = "str" ->
              IF given /\ StrLen(value.s) < count
              THEN Throw(localize("min_string", arguments))
              ELSE Pass
         [] value.t = "num" ->
              IF given /\ value.n < count
              THEN Throw(localize("min_number", arguments))
              ELSE Pass
         [] OTHER -> Throw(localize("min_unknown", <<>>))

\* this[ruleMethodName](subject, ...rule.arguments)
Call(name, subject, arguments) ==
    CASE name = "nullable" -> nullable(subject)
      [] name = "array" -> array(subject)
      [] name = "object" -> object(subject)
      [] name = "url" -> url(subject)
      [] name = "boolean" -> boolean(subject)
      [] name = "accepted" -> accepted(subject)
      [] name = "required" -> required(subject)
      [] name = "string" -> string(subject)
      [] name = "min" -> min(subject, arguments)

\* What a Validate constructor comes to: it returns, or it throws the failing
\* fields, the text of an unknown rule, or a TypeError.
Returns == [kind |-> "ok"]
Fails(filledErrors) == [kind |-> "fails", errors |-> filledErrors]
NotAMethod(name) == [kind |-> "config", method |-> name]
TypeError == [kind |-> "typeerror"]

\* A loop over the rules that ends at the first rule that fails.
RECURSIVE RunRules_EndsAtFailure(_, _, _, _, _)
RunRules_EndsAtFailure(rules, i, subject, field, pushed) ==
    IF i > Len(rules) \/ pushed # <<>> THEN [kind |-> "ran", messages |-> pushed]
    ELSE
      LET ruleMethodName == camelCase(rules[i].method)
      IN IF ruleMethodName \notin Predicates THEN NotAMethod(ruleMethodName)
         ELSE
           LET result == Call(ruleMethodName, subject, rules[i].arguments)
           IN IF result.r = "break" THEN [kind |-> "ran", messages |-> pushed]
              ELSE RunRules_EndsAtFailure(rules, i + 1, subject, field,
                       IF result.r = "throw"
                       THEN Append(pushed, replaceName(result.error, field))
                       ELSE pushed)

\* The loop over the rules of one field (validate.js 207-223): the list of
\* messages pushed, or the throw of an unknown rule.
RECURSIVE RunRules(_, _, _, _, _)
RunRules(rules, i, subject, field, pushed) ==
    IF i > Len(rules) THEN [kind |-> "ran", messages |-> pushed]
    ELSE
      LET ruleMethodName == camelCase(rules[i].method)
      IN IF ruleMethodName \notin Predicates THEN NotAMethod(ruleMethodName)
         ELSE
           LET result == Call(ruleMethodName, subject, rules[i].arguments)
           IN IF result.r = "break" THEN [kind |-> "ran", messages |-> pushed]
              ELSE IF result.r = "throw"
              THEN RunRules(rules, i + 1, subject, field,
                            Append(pushed, replaceName(result.error, field)))
              ELSE RunRules(rules, i + 1, subject, field, pushed)

\* The last character of `${ruleMethodName}() is not a validator method`,
\* which the for-in over a caught string leaves in this._bag.
LastChar == Str("d")

Length(v) ==
    CASE v.t = "arr" -> Len(v.items)
      [] v.t = "str" -> 1
      [] OTHER -> 0

\* for (let key in errors) this._bag[name] = errors[key] (validate.js 191-195)
\* over what the nested constructor threw: the last own key wins, a string
\* gives its characters and a TypeError has no enumerable key.
Caught(bag, name, thrown) ==
    CASE thrown.kind = "fails" ->
              PutEnt(bag, name, thrown.errors.ents[Len(thrown.errors.ents)].v)
      [] thrown.kind = "config" -> PutEnt(bag, name, LastChar)
      [] OTHER -> bag

\* _.pick(this._bag, nonEmptyFields)
filled(bag) == SelectSeq(bag, LAMBDA e : Length(e.v) > 0)

\* Validate.validate (validate.js 175-238) on data and a rule map given as
\* the entry list of its fields; overrideIndex "" is the default null.  No
\* caller of the repository passes a custom test.
RECURSIVE Validate(_, _, _)
RECURSIVE EachItem(_, _, _, _, _, _)
RECURSIVE WalkNodes(_, _, _, _, _, _)
RECURSIVE EachField(_, _, _, _, _)

\* for (const [index, item] of value.entries()) (validate.js 187-196)
EachItem(items, index, field, rules, overrideIndex, bag) ==
    IF index >= Len(items) THEN bag
    ELSE
      LET baseName == <<field[Len(field)]>>
          nested == Validate(items[index + 1], <<Ent(baseName, rules)>>, "")
          name == ReplaceStar(field, IF overrideIndex # "" THEN overrideIndex ELSE Idx(index))
      IN EachItem(items, index + 1, field, rules, overrideIndex,
                  IF nested.kind = "ok" THEN bag ELSE Caught(bag, name, nested))

\* for (let node of nodes) (validate.js 185-200): the bag it leaves, or the
\* TypeError of .entries() or of a property read on what has neither.
WalkNodes(field, j, value, rules, overrideIndex, bag) ==
    IF j > Len(field) THEN [kind |-> "ok", bag |-> bag]
    ELSE IF field[j] = "*"
    THEN IF value.t # "arr" THEN TypeError
         ELSE WalkNodes(field, j + 1, value, rules, overrideIndex,
                        EachItem(value.items, 0, field, rules, overrideIndex, bag))
    ELSE IF value.t \in {"undef", "null"} THEN TypeError
    ELSE WalkNodes(field, j + 1, Prop(value, field[j]), rules, overrideIndex, bag)

\* for (let field in this._rules) (validate.js 178-224)
EachField(data, rules, i, overrideIndex, bag) ==
    IF i > Len(rules) THEN [kind |-> "ok", bag |-> bag]
    ELSE
      LET field == rules[i].k
          deep == Len(field) > 1
          first == Prop(data, field[1])
      IN IF deep /\ data.t \in {"undef", "null"} THEN TypeError
         ELSE IF deep /\ first.t = "undef"
         THEN EachField(data, rules, i + 1, overrideIndex, bag)
         ELSE
           LET walked == IF deep
                         THEN WalkNodes(field, 2, first, rules[i].v, overrideIndex, bag)
                         ELSE [kind |-> "ok", bag |-> bag]
           IN IF walked.kind # "ok" THEN walked
              ELSE
                LET subject == Get(data, field)
                    ran == RunRules(parseRules(rules[i].v), 1, subject, field, <<>>)
                IN IF ran.kind = "config" THEN ran
                   ELSE EachField(data, rules, i + 1, overrideIndex,
                                  PutEnt(walked.bag, field, Arr(ran.messages)))

Validate(data, rules, overrideIndex) ==
    LET done == EachField(data, rules, 1, overrideIndex, <<>>)
    IN IF done.kind # "ok" THEN done
       ELSE LET filledErrors == filled(done.bag)
            IN IF Len(filledErrors) > 0 THEN Fails(Obj(filledErrors)) ELSE Returns

----------------------------------------------------------------------------
(* Io (src/src/io.js): the pure parts.                                     *)

\* /^\d*$/ on the segments of the model: the index strings and ''.
AllDigits(segment) == segment = "" \/ IsIndexStr(segment)

\* Io.toWildcardPath
toWildcardPath(path) ==
    [i \in 1..Len(path) |-> IF AllDigits(path[i]) THEN "*" ELSE path[i]]

\* Io.getRules: this.validation[path], undefined when there is none.
getRules(rules, path) ==
    Lookup(rules, IF Len(path) > 1 THEN toWildcardPath(path) ELSE path)

\* What Bag.record is handed by the catch of Io.validate.
Thrown(outcome) ==
    CASE outcome.kind = "fails" -> outcome.errors
      [] outcome.kind = "config" -> [t |-> "str", s |-> "is not a validator method",
                                     method |-> outcome.method]
      [] OTHER -> [t |-> "error"]

\* Io.validate: the outcome of new Validate(this.form, {[wildcard]: rules}).
validate(tree, rules, path) ==
    Validate(tree, <<Ent(toWildcardPath(path), getRules(rules, path))>>, "")

\* _.set(object, path, value)
RECURSIVE Set(_, _, _)
PutProp(node, key, value) ==
    CASE node.t = "obj" -> Obj(PutEnt(node.ents, key, value))
      [] node.t = "arr" /\ IsIndexStr(key) ->
            Arr([i \in 1..(IF IndexOf(key) + 1 > Len(node.items)
                           THEN IndexOf(key) + 1
                           ELSE Len(node.items)) |->
                    IF i = IndexOf(key) + 1 THEN value
                    ELSE IF i <= Len(node.items) THEN node.items[i]
                    ELSE Undef])
      [] OTHER -> node

Set(node, path, value) ==
    IF Len(path) = 1 THEN PutProp(node, path[1], value)
    ELSE
      LET objValue == Prop(node, path[1])
          newValue == IF objValue.t \in {"obj", "arr"} THEN objValue
                      ELSE IF IsIndexStr(path[2]) THEN Arr(<<>>)
                      ELSE Obj(<<>>)
      IN PutProp(node, path[1], Set(newValue, Tail(path), value))

\* One leaf of the feedback tree.
Leaf(errs, succ, key, index) ==
    Obj(<<Ent("error", BagGet(errs, ErrorLabel, key, index)),
          Ent("success", BagGet(succ, SuccessLabel, key, index))>>)

hasStar(key) == \E i \in 1..Len(key) : key[i] = "*"

\* Io.createFeedback (io.js 104-136): the new feedback object, or a
\* TypeError when a segment is read on null or undefined or '*' meets what
\* has no entries().
RECURSIVE FeedItems(_, _, _, _, _, _)
RECURSIVE FeedSegments(_, _, _, _, _, _, _)
RECURSIVE FeedKeys(_, _, _, _, _, _)

FeedItems(items, index, key, errs, succ, fb) ==
    IF index >= Len(items) THEN fb
    ELSE FeedItems(items, index + 1, key, errs, succ,
                   Set(fb, ReplaceStar(key, Idx(index)), Leaf(errs, succ, key, Idx(index))))

FeedSegments(key, j, node, tree, errs, succ, fb) ==
    IF j > Len(key) THEN fb
    ELSE IF key[j] # "*"
    THEN IF node.t \in {"undef", "null"} THEN [t |-> "typeerror"]
         ELSE FeedSegments(key, j + 1, Prop(node, key[j]), tree, errs, succ, fb)
    ELSE IF node.t # "arr" THEN [t |-> "typeerror"]
    ELSE FeedSegments(key, j + 1, node, tree, errs, succ,
                      FeedItems(node.items, 0, key, errs, succ, fb))

FeedKeys(rules, i, tree, errs, succ, fb) ==
    IF i > Len(rules) \/ fb.t = "typeerror" THEN fb
    ELSE FeedKeys(rules, i + 1, tree, errs, succ,
                  IF hasStar(rules[i].k)
                  THEN FeedSegments(rules[i].k, 1, tree, tree, errs, succ, fb)
                  ELSE Set(fb, rules[i].k, Leaf(errs, succ, rules[i].k, "")))

createFeedback(rules, tree, errs, succ) == FeedKeys(rules, 1, tree, errs, succ, Obj(<<>>))

\* The delay of the debounce timer.
Interval == 2000

\* Io.resetInputTimeout (io.js 255-283): the first entry of the path is
\* cleared and spliced out, and a new pending entry is pushed.
FirstOf(ts, path) == CHOOSE i \in 1..Len(ts) :
                        /\ ts[i].path = path
                        /\ \A j \in 1..(i - 1) : ts[j].path # path

Splice(ts, i) == SubSeq(ts, 1, i - 1) \o SubSeq(ts, i + 1, Len(ts))

Timeout(path) == [path |-> path, left |-> Interval, fired |-> FALSE]

\* A re-arm that leaves the timer it found running, and one that cancels the
\* timers of every path.
resetInputTimeout_NoCancel(ts, path) == Append(ts, Timeout(path))

resetInputTimeout_CancelsAll(ts, path) ==
    Append(SelectSeq(ts, LAMBDA t : t.fired), Timeout(path))

resetInputTimeout(ts, path) ==
    LET found == \E i \in 1..Len(ts) : ts[i].path = path
        kept == IF found THEN Splice(ts, FirstOf(ts, path)) ELSE ts
    IN Append(kept, Timeout(path))

\* The payload of 'paused' and 'paused:<path>', read when the timer fires.
\* A callback that reports the value its path held when the watchers were
\* last attached.
Paused_Captured(name, path) ==
    [name |-> name, path |-> path,
     value |-> IF \E i \in 1..Len(watchers) : watchers[i].path = path
               THEN watchers[CHOOSE i \in 1..Len(watchers) : watchers[i].path = path].old
               ELSE Undef,
     error |-> BagGet(errors, ErrorLabel, path, ""),
     success |-> BagGet(success, SuccessLabel, path, "")]

Paused(name, path) ==
    [name |-> name, path |-> path,
     value |-> Get(form, path),
     error |-> BagGet(errors, ErrorLabel, path, ""),
     success |-> BagGet(success, SuccessLabel, path, "")]

----------------------------------------------------------------------------
(* The state machine.                                                      *)

\* The leaves of a tree: what is neither a plain map nor an array of records.
RECURSIVE Leaves(_, _)
Leaves(v, path) ==
    IF isObject(v)
    THEN UNION {Leaves(v.ents[i].v, Append(path, v.ents[i].k)) : i \in 1..Len(v.ents)}
    ELSE IF isArrayOfObjects(v)
    THEN UNION {Leaves(v.items[i], Append(path, Idx(i - 1))) : i \in 1..Len(v.items)}
    ELSE {path}

\* The values the environment assigns to a leaf.
LeafValues == {Null, Str(BadUrl), Str(GoodUrl)}

\* The forms and the rule maps the instance is constructed with: an array
\* of records under a wildcard rule, and fields of the root and of a nested
\* map under rules of their own.
ServicesForm == Obj(<<Ent("services", Arr(<<Obj(<<Ent("url", Null)>>)>>))>>)

ServicesValidation ==
    <<Ent(<<"services", "*", "url">>, RuleString(<<"required", "|", "url">>))>>

FieldsForm ==
    Obj(<<Ent("title", Null),
          Ent("metadata", Obj(<<Ent("website", Null)>>))>>)

FieldsValidation ==
    <<Ent(<<"title">>, RuleString(<<"required", "|", "string">>)),
      Ent(<<"metadata">>, RuleString(<<"nullable", "|", "object">>)),
      Ent(<<"metadata", "website">>, RuleString(<<"nullable", "|", "url">>))>>

\* The record the environment pushes onto form.services.
NewService == Obj(<<Ent("url", Null)>>)

Step(what) == [step |-> what]

\* The paths the history of changes and pauses is kept for.
Tracked == {<<"title">>, <<"metadata", "website">>, <<"field">>}
               \cup {<<"services", Idx(i), "url">> : i \in 0..MaxLen}
               \cup {<<"services">>}

Never == [since |-> Interval, changed |-> FALSE, paused |-> 0, pausedAt |-> 0]

\* new Io(options) (io.js 37-59)
Constructed(tree, rules) ==
    /\ form = tree
    /\ validation = rules
    /\ errors = {}
    /\ success = {}
    /\ watchers = startWatching(tree, <<>>, <<>>, tree)
    /\ feedback = createFeedback(rules, tree, {}, {})
    /\ dirty = {}
    /\ pending = 0
    /\ calls = 0
    /\ updates = 0
    /\ timeouts = <<>>
    /\ log = <<>>
    /\ last = [op |-> "construct"]
    /\ quiet = [p \in Tracked |-> Never]

Init ==
    \/ Constructed(ServicesForm, ServicesValidation)
    \/ Constructed(FieldsForm, FieldsValidation)

\* The watchers whose getter or deep traversal read the property at path.
Readers(ws, path) ==
    {i \in 1..Len(ws) : IsPrefix(path, ws[i].path) \/ IsPrefix(ws[i].path, path)}

\* A watcher that holds the object a mutation happened in still holds that
\* same object as its old value.
Aliased(ws, holders, tree) ==
    [i \in 1..Len(ws) |->
        IF i \in holders THEN [ws[i] EXCEPT !.old = Get(tree, ws[i].path)] ELSE ws[i]]

\* The paths a wildcard rule reaches its array through.
Walked(path) ==
    \E i \in 1..Len(validation) :
        hasStar(validation[i].k) /\ IsPrefix(path, validation[i].k)

\* The environment assigns a leaf of the form: parent[key] = value.  It
\* leaves an array in place where a wildcard rule expects one.
SetLeaf(path, value) ==
    /\ pending < MaxPending
    /\ path \in Leaves(form, <<>>)
    /\ ~Walked(path)
    /\ Get(form, path) # value
    /\ form' = Assign(form, path, value)
    /\ pending' = pending + 1
    /\ dirty' = dirty \cup Readers(watchers, path)
    /\ watchers' = Aliased(watchers,
                           {i \in 1..Len(watchers) :
                               /\ IsPrefix(watchers[i].path, path)
                               /\ watchers[i].path # path},
                           form')
    /\ log' = <<>>
    /\ last' = [op |-> "set", path |-> path]
    /\ UNCHANGED <<validation, errors, success, feedback, calls, updates, timeouts, quiet>>

\* The environment pushes a record onto, or pops one off, form.services.
Mutated(path, items) ==
    /\ pending < MaxPending
    /\ form' = Assign(form, path, Arr(items))
    /\ pending' = pending + 1
    /\ dirty' = dirty \cup Readers(watchers, path)
    /\ watchers' = Aliased(watchers,
                           {i \in 1..Len(watchers) : IsPrefix(watchers[i].path, path)},
                           form')
    /\ log' = <<>>
    /\ UNCHANGED <<validation, errors, success, feedback, calls, updates, timeouts, quiet>>

PushService ==
    /\ Get(form, <<"services">>).t = "arr"
    /\ Len(Get(form, <<"services">>).items) < MaxLen
    /\ Mutated(<<"services">>, Append(Get(form, <<"services">>).items, NewService))
    /\ last' = [op |-> "push", path |-> <<"services">>]

PopService ==
    /\ Get(form, <<"services">>).t = "arr"
    /\ Len(Get(form, <<"services">>).items) > 0
    /\ Mutated(<<"services">>, Pop(Get(form, <<"services">>).items))
    /\ last' = [op |-> "pop", path |-> <<"services">>]

\* An 'update' notification of a bag, with the content it was emitted on.
Update(which, content) == [name |-> "update", bag |-> which, content |-> content]

Updates(which, content, n) == [i \in 1..n |-> Update(which, content)]

\* A rebuild whose result is dropped.
Rebuilt_Stale(fb) == feedback

\* this.feedback after a createFeedback() call that returned or threw.
Rebuilt(fb) == IF fb.t = "typeerror" THEN feedback ELSE fb

Min(S) == CHOOSE x \in S : \A y \in S : x <= y

\* A callback that emits 'change' before it resets the timer of the path.
onChange_EmitsFirst(recorded, change) ==
    <<Step("validate")>> \o recorded
        \o <<Step("feedback"), change, Step("rearm"), Step("rewatch")>>

\* What the callback of a watcher does with a changed value, in order
\* (io.js 237-244): Io.onChange (io.js 288-295), which validates, and so
\* records or clears, then resets the timer of the path, rebuilds the
\* feedback and emits 'change'; then stopWatching and startWatching.
onChange(recorded, change) ==
    <<Step("validate")>> \o recorded
        \o <<Step("rearm"), Step("feedback"), change, Step("rewatch")>>

Changed(path) ==
    IF path \in Tracked
    THEN [quiet EXCEPT ![path] =
            [since |-> 0, changed |-> TRUE, paused |-> 0, pausedAt |-> 0]]
    ELSE quiet

\* The substrate flushes its queue: the first queued watcher that is still
\* attached runs its callback (io.js 237-244), which validates through
\* Io.onChange (io.js 288-295) when the value differs from the old one, and
\* then tears every watcher down and attaches them again; the other queued
\* watchers are detached by then and never run.
Flush ==
    /\ pending > 0
    /\ pending' = 0
    /\ dirty' = Detached(dirty \ {Min(dirty \cup {Len(watchers) + 1})})
    /\ UNCHANGED <<form, validation, success, calls, updates>>
    /\ IF dirty = {}
       THEN /\ log' = <<>>
            /\ last' = [op |-> "idle"]
            /\ UNCHANGED <<errors, timeouts, feedback, quiet, watchers>>
       ELSE
         LET w == watchers[Min(dirty)]
             value == Get(form, w.path)
             changed == value # w.old
             outcome == validate(form, validation, w.path)
             passed == outcome.kind = "ok"
             errors1 == IF passed
                        THEN BagClear(errors, w.path)
                        ELSE BagRecord(errors, Thrown(outcome))
             emitted == IF passed THEN ClearEmits(w.path) ELSE RecordEmits
             returned == IF passed THEN Obj(<<>>) ELSE Thrown(outcome)
             seen == Seen(errors, errors1)
             fb == createFeedback(validation, form, errors1, success)
         IN /\ watchers' = startWatching(form, <<>>, stopWatching(watchers), form)
            /\ IF changed
               THEN /\ errors' = errors1
                    /\ timeouts' = resetInputTimeout(timeouts, w.path)
                    /\ feedback' = Rebuilt(fb)
                    /\ quiet' = Changed(w.path)
                    /\ log' = onChange(Updates("errors", seen, emitted),
                                        [name |-> "change", field |-> w.field,
                                         path |-> w.path, value |-> value,
                                         oldValue |-> w.old, errors |-> returned])
                    /\ last' = [op |-> "change", path |-> w.path, passed |-> passed,
                                rearmed |-> \E i \in 1..Len(timeouts) :
                                               /\ timeouts[i].path = w.path
                                               /\ ~timeouts[i].fired]
               ELSE /\ log' = <<Step("rewatch")>>
                    /\ last' = [op |-> "rewatch", path |-> w.path]
                    /\ UNCHANGED <<errors, timeouts, feedback, quiet>>

\* An update that assigns the first field of the data and no other.
AssignKeys_FirstOnly(tree, ents, i) ==
    IF ents = <<>> THEN tree ELSE Obj(PutEnt(tree.ents, ents[1].k, ents[1].v))

\* Io.update(data) (io.js 75-85): the assignments queue the watchers that
\* read the assigned fields, and stopWatching tears them down before the
\* substrate flushes.
RECURSIVE AssignKeys(_, _, _)
AssignKeys(tree, ents, i) ==
    IF i > Len(ents) THEN tree
    ELSE AssignKeys(Obj(PutEnt(tree.ents, ents[i].k, ents[i].v)), ents, i + 1)

UpdateData ==
    {Obj(<<>>),
     Obj(<<Ent("title", Str(BadUrl))>>),
     Obj(<<Ent("services", Arr(<<>>))>>),
     Obj(<<Ent("services", Arr(<<Obj(<<Ent("url", Str(BadUrl))>>)>>))>>),
     Obj(<<Ent("metadata", Obj(<<Ent("website", Str(BadUrl))>>)),
           Ent("title", Null)>>)}

update(data) ==
    /\ updates < MaxUpdates
    /\ updates' = updates + 1
    /\ Keys(data.ents) \subseteq Keys(form.ents)
    /\ form' = AssignKeys(form, data.ents, 1)
    /\ watchers' = startWatching(form', <<>>, stopWatching(watchers), form')
    /\ dirty' = Detached(dirty \cup UNION {Readers(watchers, <<ent.k>>) :
                                               ent \in {data.ents[i] : i \in 1..Len(data.ents)}})
    /\ pending' = IF dirty' = {} THEN 0 ELSE 1
    /\ feedback' = Rebuilt(createFeedback(validation, form', errors, success))
    /\ log' = <<Step("assign"), Step("rewatch"), Step("feedback")>>
    /\ last' = [op |-> "update", data |-> data]
    /\ UNCHANGED <<validation, errors, success, calls, timeouts, quiet>>

\* The clock advances: every pending timer comes closer to its expiry.
Less(n) == IF n > TimeStep THEN n - TimeStep ELSE 0
More(n) == IF n + TimeStep < Interval THEN n + TimeStep ELSE Interval

Tick ==
    /\ timeouts' = [i \in 1..Len(timeouts) |->
                      IF timeouts[i].fired THEN timeouts[i]
                      ELSE [timeouts[i] EXCEPT !.left = Less(@)]]
    /\ quiet' = [p \in Tracked |-> [quiet[p] EXCEPT !.since = More(@)]]
    /\ log' = <<>>
    /\ last' = [op |-> "tick"]
    /\ UNCHANGED <<form, validation, errors, success, feedback, watchers, dirty,
                   pending, calls, updates>>

\* A due timer runs its callback (io.js 265-279).
Expire(i) ==
    /\ i \in 1..Len(timeouts)
    /\ ~timeouts[i].fired
    /\ timeouts[i].left = 0
    /\ timeouts' = [timeouts EXCEPT ![i].fired = TRUE]
    /\ log' = <<Paused("paused", timeouts[i].path), Paused("paused:", timeouts[i].path)>>
    /\ quiet' = [p \in Tracked |->
                    IF p # timeouts[i].path THEN quiet[p]
                    ELSE [quiet[p] EXCEPT !.paused = IF @ < 3 THEN @ + 1 ELSE @,
                                          !.pausedAt = IF @ < 3 THEN @ + 1 ELSE @]]
    /\ last' = [op |-> "expire", path |-> timeouts[i].path]
    /\ UNCHANGED <<form, validation, errors, success, feedback, watchers, dirty,
                   pending, calls, updates>>

\* The caller uses a bag directly: io.errors.record(...), io.success.clear(),
\* between two flushes of the substrate.
\* Io has subscribed createFeedback to 'update' of both bags (io.js 55-56).
Messages ==
    {Obj(<<Ent(<<"title">>, Str("taken"))>>),
     Obj(<<Ent(<<"metadata", "website">>, Arr(<<Str("Oops: taken"), Str("taken")>>)),
           Ent(<<"title">>, Arr(<<Str("taken")>>))>>),
     Obj(<<Ent(<<"services", "0", "url">>, Arr(<<Str("Oops: taken"), Str("taken")>>))>>),
     Obj(<<Ent(<<"services", "1", "url">>, Str("taken"))>>)}

Fields == {<<>>, <<"title">>, <<"services", "0", "url">>}

\* The caller names paths its rule map has rules for.
Ruled(paths) == \A path \in paths : HasKey(validation, toWildcardPath(path))

Called(which, content, emitted, call) ==
    /\ pending = 0
    /\ calls < MaxCalls
    /\ calls' = calls + 1
    /\ IF which = "errors"
       THEN errors' = content /\ UNCHANGED success
       ELSE success' = content /\ UNCHANGED errors
    /\ LET seen == Seen(IF which = "errors" THEN errors ELSE success, content)
       IN /\ feedback' = IF emitted = 0 THEN feedback
                         ELSE Rebuilt(createFeedback(validation, form,
                                         IF which = "errors" THEN seen ELSE errors,
                                         IF which = "errors" THEN success ELSE seen))
          /\ log' = Updates(which, seen, emitted)
    /\ last' = call
    /\ UNCHANGED <<form, validation, watchers, dirty, pending, updates, timeouts, quiet>>

Content(which) == IF which = "errors" THEN errors ELSE success

record(which, messages) ==
    /\ Ruled(Keys(messages.ents))
    /\ Called(which, BagRecord(Content(which), messages), RecordEmits,
           [op |-> "record", bag |-> which, messages |-> messages])

replace(which, messages) ==
    /\ Ruled(Keys(messages.ents))
    /\ Called(which, BagReplace(Content(which), messages), ReplaceEmits,
           [op |-> "replace", bag |-> which, messages |-> messages])

clear(which, field) ==
    /\ Ruled({field} \ {<<>>})
    /\ Called(which, BagClear(Content(which), field), ClearEmits(field),
           [op |-> "clear", bag |-> which, field |-> field])

Next ==
    \/ \E path \in Leaves(form, <<>>), value \in LeafValues : SetLeaf(path, value)
    \/ PushService
    \/ PopService
    \/ Flush
    \/ \E data \in UpdateData : update(data)
    \/ \E which \in {"errors", "success"}, messages \in Messages : record(which, messages)
    \/ \E which \in {"errors", "success"}, messages \in Messages : replace(which, messages)
    \/ \E which \in {"errors", "success"}, field \in Fields : clear(which, field)

Spec == Init /\ [][Next]_vars

\* The same instance with the clock and the timer callbacks, on the form of
\* plain fields.
TimerInit == Constructed(FieldsForm, FieldsValidation)

\* The paths that form has timers for.
TimerPaths == Leaves(FieldsForm, <<>>)

TimerNext ==
    \/ \E path \in Leaves(form, <<>>), value \in LeafValues : SetLeaf(path, value)
    \/ Flush
    \/ Tick
    \/ \E i \in 1..Len(timeouts) : Expire(i)

TimerSpec == TimerInit /\ [][TimerNext]_vars

\* The runtime lets time pass and runs a timer that is due.
FairTimerSpec ==
    /\ TimerSpec
    /\ WF_vars(Tick)
    /\ \A path \in TimerPaths :
          WF_vars(\E i \in 1..Len(timeouts) : timeouts[i].path = path /\ Expire(i))

\* An instance over one field, constructed with one of several rule pipelines,
\* whose field the environment assigns values of every type to: each observed
\* change runs the pipeline on the value (validate.js 205-223).
FieldForm == Obj(<<Ent("field", Null)>>)

RuleValues ==
    {Null, Str(""), Str(BadUrl), Str(GoodUrl), Bool(FALSE), Bool(TRUE),
     Num(0), Num(5), Arr(<<>>), Arr(<<Bool(FALSE)>>)}

\* The pipelines, written as rule strings and as a list of rule strings, with
\* the rules each of them declares.
Pipelines ==
    {[text |-> RuleString(<<"nullable", "|", "url">>),
      rules |-> <<"nullable", "url">>],
     [text |-> RuleString(<<"required", "|", "url">>),
      rules |-> <<"required", "url">>],
     [text |-> RuleString(<<"required", "|", "string", "|", "min", ":", "3">>),
      rules |-> <<"required", "string", "min">>],
     [text |-> RuleString(<<"required", "|", "nullable", "|", "url">>),
      rules |-> <<"required", "nullable", "url">>],
     [text |-> RuleString(<<"string", "|", "nullable", "|", "min", ":", "3">>),
      rules |-> <<"string", "nullable", "min">>],
     [text |-> RuleString(<<"nullable", "|", "boolean", "|", "accepted">>),
      rules |-> <<"nullable", "boolean", "accepted">>],
     [text |-> RuleString(<<"array", "|", "required">>),
      rules |-> <<"array", "required">>],
     [text |-> Arr(<<RuleString(<<"required">>), RuleString(<<"min", ":", "3">>),
                     RuleString(<<"url">>)>>),
      rules |-> <<"required", "min", "url">>],
     [text |-> RuleString(<<"url", "|", "min", ":", "3", "|", "boolean", "|", "accepted">>),
      rules |-> <<"url", "min", "boolean", "accepted">>]}

RuleInit ==
    \E pipeline \in Pipelines :
        Constructed(FieldForm, <<Ent(<<"field">>, pipeline.text)>>)

RuleNext ==
    \/ \E value \in RuleValues : SetLeaf(<<"field">>, value)
    \/ Flush

RuleSpec == RuleInit /\ [][RuleNext]_vars


\* An instance over one field whose pipeline names 'in', a rule Validate has
\* no method for.
UnknownPipelines ==
    {[text |-> RuleString(<<"in", ":", "a", ",", "b">>),
      rules |-> <<"in">>],
     [text |-> RuleString(<<"required", "|", "in", ":", "a", ",", "b">>),
      rules |-> <<"required", "in">>],
     [text |-> RuleString(<<"in", ":", "a", ",", "b", "|", "required">>),
      rules |-> <<"in", "required">>],
     [text |-> RuleString(<<"nullable", "|", "in", ":", "a", ",", "b">>),
      rules |-> <<"nullable", "in">>],
     [text |-> Arr(<<RuleString(<<"string">>), RuleString(<<"in", ":", "a", ",", "b">>)>>),
      rules |-> <<"string", "in">>]}

ConfigInit ==
    \E pipeline \in UnknownPipelines :
        Constructed(FieldForm, <<Ent(<<"field">>, pipeline.text)>>)

ConfigNext ==
    \/ \E value \in RuleValues : SetLeaf(<<"field">>, value)
    \/ Flush

ConfigSpec == ConfigInit /\ [][ConfigNext]_vars


\* Instances over forms of several shapes, without rules, whose caller also
\* calls stopWatching(): maps side by side, a map in a map, an array of
\* records beside a map, a single field, and no field at all.
Shapes ==
    {Obj(<<Ent("a", Obj(<<Ent("b", Null)>>)), Ent("c", Obj(<<Ent("d", Null)>>))>>),
     Obj(<<Ent("a", Obj(<<Ent("b", Obj(<<Ent("c", Null)>>)), Ent("d", Null)>>)),
           Ent("e", Null)>>),
     Obj(<<Ent("services", Arr(<<NewService, NewService>>)),
           Ent("metadata", Obj(<<Ent("website", Null)>>))>>),
     Obj(<<Ent("title", Null)>>),
     Obj(<<>>)}

WatchInit == \E shape \in Shapes : Constructed(shape, <<>>)

\* The caller calls io.stopWatching() (io.js 202-210): every handle of the
\* list is called, in order.
StopWatching ==
    /\ watchers' = stopWatching(watchers)
    /\ dirty' = Detached(dirty)
    /\ log' = [i \in 1..Len(watchers) |-> [name |-> "unwatch", path |-> watchers[i].path]]
    /\ last' = [op |-> "stop"]
    /\ UNCHANGED <<form, validation, errors, success, feedback, pending, calls,
                   updates, timeouts, quiet>>

WatchNext ==
    \/ \E path \in Leaves(form, <<>>), value \in LeafValues : SetLeaf(path, value)
    \/ PushService
    \/ PopService
    \/ Flush
    \/ update(Obj(<<>>))
    \/ StopWatching

WatchSpec == WatchInit /\ [][WatchNext]_vars

\* io.toWildcardPath(path) called on its own, and on its own result: the
\* paths are those of up to MaxSegments segments, each an index, a key (the
\* empty key among them) or the wildcard.
MaxSegments == 3

Segments == {"", "0", "1", "4", "*", "a", "url", "services"}

Paths == UNION {[1..n -> Segments] : n \in 1..MaxSegments}

PathInit ==
    /\ form = Obj(<<>>)
    /\ validation = <<>>
    /\ errors = {}
    /\ success = {}
    /\ watchers = startWatching(form, <<>>, <<>>, form)
    /\ feedback = createFeedback(validation, form, {}, {})
    /\ dirty = {}
    /\ pending = 0
    /\ calls = 0
    /\ updates = 0
    /\ timeouts = <<>>
    /\ log = <<>>
    /\ last \in {[op |-> "path", path |-> path] : path \in Paths}
    /\ quiet = [p \in Tracked |-> Never]

ToWildcardPath ==
    /\ last.op = "path"
    /\ last' = [op |-> "wildcard", path |-> last.path, result |-> toWildcardPath(last.path)]
    /\ UNCHANGED <<form, validation, errors, success, feedback, watchers, dirty,
                   pending, calls, updates, timeouts, log, quiet>>

ToWildcardPathAgain ==
    /\ last.op = "wildcard"
    /\ last' = [op |-> "again", path |-> last.path, result |-> last.result,
                again |-> toWildcardPath(last.result)]
    /\ UNCHANGED <<form, validation, errors, success, feedback, watchers, dirty,
                   pending, calls, updates, timeouts, log, quiet>>

PathNext == ToWildcardPath \/ ToWildcardPathAgain

PathSpec == PathInit /\ [][PathNext]_vars

----------------------------------------------------------------------------
(* What the properties below read off a state.                             *)

\* The events of the last operation with the given name.
Emitted(name) == SelectSeq(log, LAMBDA e : "name" \in DOMAIN e /\ e.name = name)

\* The names of the messages a bag holds for a path, in order.
Recorded(bag, path) ==
    IF BagHas(bag, path)
    THEN [i \in 1..Len(BagAt(bag, path).items) |-> BagAt(bag, path).items[i].s]
    ELSE <<>>

\* The rule table of the specification: the values a rule accepts, and the
\* message a rule fails with.
Falsy(v) == v \in {Undef, Null, Str(""), Bool(FALSE), Num(0)}

Meets(rule, v) ==
    CASE rule = "required" -> IF v.t = "arr" THEN v.items # <<>> ELSE ~Falsy(v)
      [] rule = "string" -> v.t \in {"null", "str"}
      [] rule = "array" -> v.t = "arr"
      [] rule = "object" -> v.t \in {"obj", "arr", "null"}
      [] rule = "boolean" -> v.t = "bool"
      [] rule = "accepted" -> v = Bool(TRUE)
      [] rule = "url" -> v = Str(GoodUrl)
      [] rule = "min" -> \/ v.t = "str" /\ StrLen(v.s) >= 3
                         \/ v.t = "num" /\ v.n >= 3
      [] rule = "nullable" -> TRUE

MessageOf(rule, v) ==
    IF rule # "min" THEN rule
    ELSE CASE v.t = "str" -> "min_string"
           [] v.t = "num" -> "min_number"
           [] OTHER -> "min_unknown"

\* The messages of the rules that fail on v, in declared order, up to a
\* nullable that meets a falsy v.
RECURSIVE Expected(_, _, _)
Expected(rules, i, v) ==
    IF i > Len(rules) THEN <<>>
    ELSE IF rules[i] = "nullable" /\ Falsy(v) THEN <<>>
    ELSE (IF Meets(rules[i], v) THEN <<>> ELSE <<MessageOf(rules[i], v)>>)
         \o Expected(rules, i + 1, v)

\* The rules the rule map declares for a path of plain fields.
Declared(path) ==
    IF validation = FieldsValidation
    THEN IF path = <<"title">> THEN <<"required", "string">> ELSE <<"nullable", "url">>
    ELSE (CHOOSE pipeline \in Pipelines :
              validation = <<Ent(<<"field">>, pipeline.text)>>).rules

PlainChange ==
    /\ last.op = "change"
    /\ ~hasStar(toWildcardPath(last.path))
    /\ HasKey(validation, last.path)

WildcardChange ==
    /\ last.op = "change"
    /\ hasStar(toWildcardPath(last.path))
    /\ HasKey(validation, toWildcardPath(last.path))

----------------------------------------------------------------------------
(* The claims.                                                             *)

\* C1, as the specification states it: after a change at an element path
\* services.i.url under the rule 'services.*.url': 'required|url', the change
\* event's errors hold that path alone, with its messages, when the value
\* fails, and are empty when it passes, and then the error bag has no entry
\* for the path.
C1_WildcardChangeReportsItsPath ==
    WildcardChange =>
        LET event == Emitted("change")[1]
            expected == Expected(<<"required", "url">>, 1, Get(form, last.path))
        IN IF expected = <<>>
           THEN event.errors = Obj(<<>>) /\ ~BagHas(errors, last.path)
           ELSE /\ Keys(event.errors.ents) = {last.path}
                /\ Recorded(errors, last.path) = expected

\* C2: after an observed change at a path p of plain fields, the error bag
\* has an entry for p exactly when the value at p fails the pipeline of p, the
\* entry is the messages of the failing rules, and the change event's errors
\* are {p: messages} when it fails and {} when it passes.
C2_PlainPathErrors ==
    PlainChange =>
        LET event == Emitted("change")[1]
            expected == Expected(Declared(last.path), 1, Get(form, last.path))
        IN /\ BagHas(errors, last.path) <=> expected # <<>>
           /\ Recorded(errors, last.path) = expected
           /\ event.errors = IF expected = <<>> THEN Obj(<<>>)
                             ELSE Obj(<<Ent(last.path, BagAt(errors, last.path))>>)

\* 'bad' at metadata.website under 'nullable|url' has left one url message.
C2_Witness ==
    /\ PlainChange
    /\ last.path = <<"metadata", "website">>
    /\ Get(form, last.path) = Str(BadUrl)
    /\ Recorded(errors, last.path) = <<"url">>

\* C3, as the specification states it: after construction, after update and
\* after every observed change the watch set is the set of the leaf paths of
\* the form.
C3_WatchSetIsLeafSet ==
    last.op \in {"construct", "update", "change"} =>
        {watchers[i].path : i \in 1..Len(watchers)}
            = {Join(path) : path \in Leaves(form, <<>>)}

\* The timers of a path that have not fired.
PendingOf(path) == {i \in 1..Len(timeouts) : timeouts[i].path = path /\ ~timeouts[i].fired}

\* C4: no 'paused' or 'paused:p' fires before the interval has elapsed since
\* the last observed change at p: a pending timer of p is never due earlier
\* than that, a timer fires only once the interval has elapsed, and a change
\* at p leaves no pending timer of p but one with the full interval to wait.
C4_NoPauseBeforeInterval ==
    /\ \A i \in 1..Len(timeouts) :
          ~timeouts[i].fired =>
              timeouts[i].left >= Interval - quiet[timeouts[i].path].since
    /\ last.op = "expire" =>
          /\ quiet[last.path].since >= Interval
          /\ [i \in 1..Len(log) |-> log[i].name] = <<"paused", "paused:">>
          /\ \A i \in 1..Len(log) : log[i].path = last.path
    /\ last.op = "change" =>
          \A i \in PendingOf(last.path) : timeouts[i].left = Interval

\* A timer has fired, the interval after the change at its path.
C4_Witness ==
    /\ last.op = "expire"
    /\ quiet[last.path].changed
    /\ quiet[last.path].since = Interval
    /\ Len(log) = 2

\* What a change at one path leaves of the timers of the other paths.
OthersKeepTimers ==
    last'.op = "change" =>
        \A i \in 1..Len(timeouts) :
            timeouts[i].path # last'.path =>
                \E j \in 1..Len(timeouts') : timeouts'[j] = timeouts[i]

\* C5: after an observed change at p with no further change at p, 'paused' and
\* 'paused:p' fire, once each; a path has at most one pending timer; and a
\* change at another path neither cancels nor restarts the timer of p.
C5_OnePausePerQuietPeriod ==
    /\ [](\A p \in TimerPaths :
            /\ quiet[p].paused <= 1
            /\ quiet[p].pausedAt <= 1
            /\ Cardinality(PendingOf(p)) <= 1)
    /\ [][OthersKeepTimers]_vars
    /\ \A p \in TimerPaths :
          (quiet[p].changed /\ quiet[p].paused = 0)
              ~> \/ quiet[p].paused = 1 /\ quiet[p].pausedAt = 1
                 \/ last.op = "change" /\ last.path = p

\* A change re-arms the timer of its path while the timer of another path
\* keeps running, part of its wait behind it.
C5_Witness ==
    /\ last.op = "change"
    /\ last.rearmed
    /\ \E i \in 1..Len(timeouts) :
          /\ timeouts[i].path # last.path
          /\ ~timeouts[i].fired
          /\ timeouts[i].left < Interval

\* The concrete paths a rule path resolves to on the form: one for each
\* index of the array a '*' stands in.
StarAt(key) == CHOOSE j \in 1..Len(key) : key[j] = "*"

Resolved(key) ==
    IF ~hasStar(key) THEN {key}
    ELSE {ReplaceStar(key, Idx(i - 1)) :
             i \in 1..Len(Get(form, SubSeq(key, 1, StarAt(key) - 1)).items)}

\* The leaf the bags give a concrete path.
LeafOf(path) ==
    Obj(<<Ent("error", BagGet(errors, ErrorLabel, path, "")),
          Ent("success", BagGet(success, SuccessLabel, path, ""))>>)

\* No leaf of a wildcard rule lies beyond its array.
NoneBeyond(key) ==
    hasStar(key) =>
        \A index \in 0..(MaxLen + 1) :
            index >= Len(Get(form, SubSeq(key, 1, StarAt(key) - 1)).items) =>
                Get(feedback, ReplaceStar(key, Idx(index))) = Undef

\* The states a rebuild of the feedback has just ended in.
JustRebuilt ==
    \/ last.op \in {"change", "record", "replace"}
    \/ last.op = "clear" /\ last.field = <<>>

Extended(i) ==
    \E j \in (i + 1)..Len(validation) :
        /\ IsPrefix(validation[i].k, validation[j].k)
        /\ validation[i].k # validation[j].k

\* A rule path that a rule path declared after it is a prefix of.
Overwritten(i) ==
    \E j \in (i + 1)..Len(validation) :
        /\ IsPrefix(validation[j].k, validation[i].k)
        /\ validation[i].k # validation[j].k

After(which) == IF which = "errors" THEN errors' ELSE success'

\* What a call of a bag does to its content.
BagStep ==
    calls' = calls + 1 =>
        LET which == last'.bag
            old == Content(which)
            new == After(which)
        IN /\ last'.op = "record" =>
                LET given == last'.messages.ents
                IN /\ \A i \in 1..Len(given) :
                         /\ BagHas(new, given[i].k)
                         /\ BagAt(new, given[i].k) = IF given[i].v.t = "arr"
                                                      THEN given[i].v
                                                      ELSE Arr(<<given[i].v>>)
                   /\ \A e \in old : e.k \notin Keys(given) => e \in new
                   /\ BagKeys(new) = BagKeys(old) \cup Keys(given)
           /\ last'.op = "replace" =>
                LET given == last'.messages.ents
                IN new = {Ent(given[i].k, given[i].v) : i \in 1..Len(given)}
           /\ last'.op = "clear" =>
                IF last'.field = <<>>
                THEN new = {}
                ELSE /\ ~BagHas(new, last'.field)
                     /\ new = {e \in old : e.k # last'.field}
           /\ which = "errors" => success' = success
           /\ which = "success" => errors' = errors

\* C7: record(m) sets every path of m to its messages, a bare message as a
\* list of one, and leaves the other paths; replace(m) leaves exactly m;
\* clear(p) removes p and leaves the other paths; clear() leaves nothing;
\* has(p) is true after record({p: x}) and false after clear(p).
C7_BagOperations == [][BagStep]_vars

\* A record of a bare message at title has stored it as a list of one beside
\* the messages of another path.
C7_Witness ==
    /\ last.op = "record"
    /\ last.bag = "errors"
    /\ Lookup(last.messages.ents, <<"title">>) = Str("taken")
    /\ BagAt(errors, <<"title">>) = Arr(<<Str("taken")>>)
    /\ BagHas(errors, <<"metadata", "website">>)

\* C8: record, replace and clear() emit one 'update' each, on the content
\* they have set, the record of a failed validation included; clear(path)
\* emits none, the clear of a passed validation included.
C8_UpdateEvents ==
    /\ (last.op \in {"record", "replace"} \/ (last.op = "clear" /\ last.field = <<>>)) =>
          log = <<[name |-> "update", bag |-> last.bag, content |-> Content(last.bag)]>>
    /\ (last.op = "clear" /\ last.field # <<>>) => log = <<>>
    /\ (last.op = "change" /\ ~last.passed) =>
          Emitted("update") = <<[name |-> "update", bag |-> "errors", content |-> errors]>>
    /\ (last.op = "change" /\ last.passed) => Emitted("update") = <<>>

\* A replace of the success bag has emitted its one update.
C8_Witness ==
    /\ last.op = "replace"
    /\ last.bag = "success"
    /\ success # {}
    /\ Len(Emitted("update")) = 1

\* The first nullable of the pipeline of the changed path, 0 when it has none.
FirstNullable(rules) ==
    IF \E k \in 1..Len(rules) : rules[k] = "nullable"
    THEN CHOOSE k \in 1..Len(rules) :
            rules[k] = "nullable" /\ \A j \in 1..(k - 1) : rules[j] # "nullable"
    ELSE 0

NullableOnFalsy ==
    /\ PlainChange
    /\ FirstNullable(Declared(last.path)) > 0
    /\ Falsy(Get(form, last.path))

\* C9, as the specification states it: when nullable is applied to a falsy
\* value the field ends validation with no message, whatever rules the
\* pipeline holds beside it.
C9_NullableLeavesNoMessage ==
    NullableOnFalsy => ~BagHas(errors, last.path)

\* C9, amended: when nullable is applied to a falsy value, neither nullable
\* nor a rule after it records a message: the field ends validation with the
\* messages of the failing rules declared before nullable, and with none when
\* nullable is declared first.
C9_NullableEndsPipeline ==
    NullableOnFalsy =>
        LET rules == Declared(last.path)
            ahead == SubSeq(rules, 1, FirstNullable(rules) - 1)
            expected == Expected(ahead, 1, Get(form, last.path))
        IN /\ Recorded(errors, last.path) = expected
           /\ BagHas(errors, last.path) <=> expected # <<>>

\* '' under 'nullable|url' has left no message, though it is no URL.
C9_Witness ==
    /\ NullableOnFalsy
    /\ Declared(last.path) = <<"nullable", "url">>
    /\ Get(form, last.path) = Str("")
    /\ ~BagHas(errors, last.path)

\* C10: the pipeline runs in declared order and goes on after a failure: the
\* messages of a field are those of its failing rules, one each, in declared
\* order, up to a nullable that meets a falsy value.
C10_PipelineAccumulates ==
    PlainChange =>
        /\ Recorded(errors, last.path)
              = Expected(Declared(last.path), 1, Get(form, last.path))
        /\ Len(Emitted("change")) = 1
        /\ Emitted("change")[1].value = Get(form, last.path)

\* 5 under 'url|min:3|boolean|accepted' has failed url, passed min and
\* failed boolean and accepted.
C10_Witness ==
    /\ PlainChange
    /\ Get(form, last.path) = Num(5)
    /\ Recorded(errors, last.path) = <<"url", "boolean", "accepted">>

\* The concrete paths of the rule of the changed path whose values fail it.
FailingPaths ==
    IF WildcardChange
    THEN {path \in Resolved(toWildcardPath(last.path)) :
             Expected(<<"required", "url">>, 1, Get(form, path)) # <<>>}
    ELSE IF Expected(Declared(last.path), 1, Get(form, last.path)) # <<>>
         THEN {last.path}
         ELSE {}

\* C11, as the specification states it: validation fails exactly when a field
\* has a failing rule, and the keys of the failure map, which the change
\* event carries, are exactly the failing concrete paths: services.i.url for
\* the elements i whose url fails, and no key that holds a '*'.
C11_FailureMapKeys ==
    (WildcardChange \/ PlainChange) =>
        LET event == Emitted("change")[1]
        IN /\ last.passed <=> FailingPaths = {}
           /\ Keys(event.errors.ents) = FailingPaths

\* The pipeline of the changed field has come to the rule it names without
\* a method: no nullable ahead of it has met a falsy value.
UnknownReached ==
    LET rules == (CHOOSE pipeline \in UnknownPipelines :
                     validation = <<Ent(<<"field">>, pipeline.text)>>).rules
        at == CHOOSE k \in 1..Len(rules) : rules[k] = "in"
    IN ~\E j \in 1..(at - 1) :
           rules[j] = "nullable" /\ Falsy(Get(form, <<"field">>))

\* C12, as the specification states it: an observed change at a path whose
\* pipeline comes to a rule that is no known predicate leaves the error bag
\* as it was.
C12_UnknownRuleLeavesBag ==
    [][(last'.op = "change" /\ UnknownReached') => errors' = errors]_vars

\* The baseline of every watcher is the value now at its path, and every
\* leaf of the form has a watcher.
Rewatched ==
    /\ \A i \in 1..Len(watchers) : watchers[i].old = Get(form, watchers[i].path)
    /\ \A path \in Leaves(form, <<>>) : HasWatcher(watchers, Join(path))

\* The feedback agrees with the bags at the resolved paths of every rule.
FeedbackAgrees ==
    \A i \in 1..Len(validation) :
        /\ ~Overwritten(i) =>
              \A path \in Resolved(validation[i].k) :
                  /\ Prop(Get(feedback, path), "error") = Prop(LeafOf(path), "error")
                  /\ Prop(Get(feedback, path), "success") = Prop(LeafOf(path), "success")
        /\ NoneBeyond(validation[i].k)

UpdateStep == last'.op = "update" /\ updates' = updates + 1

\* C13: update(data) sets every top-level field data names to the value data
\* gives and leaves every other top-level field as it was; when it returns
\* the watchers are those of the updated tree, with its values for their
\* baselines and none of the old ones queued, and the feedback is rebuilt.
C13_UpdateMerges ==
    /\ [][UpdateStep =>
            /\ Keys(form'.ents) = Keys(form.ents)
            /\ \A key \in Keys(form.ents) :
                  Prop(form', key) = IF HasKey(last'.data.ents, key)
                                     THEN Lookup(last'.data.ents, key)
                                     ELSE Prop(form, key)]_vars
    /\ [](last.op = "update" => Rewatched /\ FeedbackAgrees /\ dirty = {})

\* update({services: [{url: 'not-a-url'}]}) has left a watcher and a leaf of
\* the feedback for services.0.url.
C13_Witness ==
    /\ last.op = "update"
    /\ HasKey(last.data.ents, "services")
    /\ Get(form, <<"services", "0", "url">>) = Str(BadUrl)
    /\ \E i \in 1..Len(watchers) :
          /\ watchers[i].path = <<"services", "0", "url">>
          /\ watchers[i].old = Str(BadUrl)
    /\ Get(feedback, <<"services", "0", "url">>) = LeafOf(<<"services", "0", "url">>)

\* C20: update(data) emits no 'change', runs no validation, leaves both bags
\* and every timer as they were and leaves no notification for the substrate
\* to deliver: the watchers it attaches take the new values for their
\* baselines, so an invalid value it assigns keeps the error state of before.
C20_UpdateIsSilent ==
    [][UpdateStep =>
          /\ errors' = errors
          /\ success' = success
          /\ timeouts' = timeouts
          /\ quiet' = quiet
          /\ Emitted("change")' = <<>>
          /\ Emitted("update")' = <<>>
          /\ Step("validate") \notin {log'[i] : i \in 1..Len(log')}
          /\ dirty' = {}
          /\ pending' = 0
          /\ \A i \in 1..Len(watchers') :
                watchers'[i].old = Get(form', watchers'[i].path)]_vars

\* update has put 'not-a-url' at metadata.website, which fails
\* 'nullable|url', and the error bag has no entry for it.
C20_Witness ==
    /\ last.op = "update"
    /\ HasKey(last.data.ents, "metadata")
    /\ Get(form, <<"metadata", "website">>) = Str(BadUrl)
    /\ ~BagHas(errors, <<"metadata", "website">>)
    /\ pending = 0

\* C14: stopWatching() calls the handle of every watcher of the list once
\* and leaves the list empty, and with it nothing the substrate could still
\* deliver; it touches nothing else; called with no watcher it calls no
\* handle and leaves the list empty; and while the list is empty an
\* assignment to the form queues no observation.
C14_StopWatchingDetachesAll ==
    /\ [](last.op = "stop" => watchers = <<>> /\ dirty = {})
    /\ [][last'.op = "stop" =>
            /\ Len(log') = Len(watchers)
            /\ \A i \in 1..Len(watchers) : log'[i].path = watchers[i].path
            /\ watchers = <<>> => log' = <<>>
            /\ UNCHANGED <<form, validation, errors, success, feedback, timeouts>>]_vars
    /\ [][(watchers = <<>> /\ last'.op \in {"set", "push", "pop"}) => dirty' = {}]_vars
    /\ [][(watchers = <<>> /\ last'.op \in {"idle", "rewatch", "change"}) =>
              last'.op = "idle" /\ watchers' = <<>>]_vars

\* stopWatching() has called the handles of five watchers, after a change.
C14_Witness ==
    /\ last.op = "stop"
    /\ Len(log) = 5
    /\ watchers = <<>>
    /\ \E path \in Leaves(form, <<>>) : Get(form, path) # Null

\* C15: no two watchers of the list have the same path.
C15_NoDuplicatePaths ==
    \A i, j \in 1..Len(watchers) : watchers[i].path = watchers[j].path => i = j

\* Two maps side by side both come back to the path '', which has one
\* watcher.
C15_Witness ==
    /\ Cardinality({i \in 1..Len(form.ents) : isObject(form.ents[i].v)}) = 2
    /\ Cardinality({i \in 1..Len(watchers) : watchers[i].path = <<"">>}) = 1
    /\ last.op = "change"

\* C16: when a timer fires, 'paused' and 'paused:<path>' are emitted, in
\* that order, each with the value the form holds at the path and the
\* messages the two bags hold for the path at that moment.
C16_PausedPayloadAtFireTime ==
    last.op = "expire" =>
        /\ Len(log) = 2
        /\ log[1].name = "paused"
        /\ log[2].name = "paused:"
        /\ \A i \in 1..2 :
              /\ log[i].path = last.path
              /\ log[i].value = Get(form, last.path)
              /\ log[i].error = BagGet(errors, ErrorLabel, last.path, "")
              /\ log[i].success = BagGet(success, SuccessLabel, last.path, "")

\* A timer has fired after its field was assigned another value that no
\* flush has delivered yet.
C16_Witness ==
    /\ last.op = "expire"
    /\ pending > 0
    /\ \E i \in 1..Len(watchers) :
          /\ watchers[i].path = last.path
          /\ watchers[i].old # Get(form, last.path)
    /\ log[1].value = Str(GoodUrl)

\* A segment that is a non-negative integer.
Numeric(segment) == IsIndexStr(segment)

\* C17: toWildcardPath(p) has the segments of p, with '*' in the place of
\* exactly the numeric ones, and applying it to its result returns the
\* result.
C17_ToWildcardPath ==
    /\ last.op \in {"wildcard", "again"} =>
          /\ Len(last.result) = Len(last.path)
          /\ \A i \in 1..Len(last.path) :
                last.result[i] = IF Numeric(last.path[i]) THEN "*" ELSE last.path[i]
    /\ last.op = "again" => last.again = last.result

\* The entry of a key is the same in two bags.
SameEntry(before, after, key) ==
    /\ BagHas(before, key) <=> BagHas(after, key)
    /\ BagAt(before, key) = BagAt(after, key)

\* C18, as the specification states it: the processing of a change at a path
\* modifies the error bag at most at the key of that path; the entry of
\* every other key, the paths of the other elements of the array among
\* them, is what it was.
C18_ChangeTouchesOnlyItsPath ==
    [][last'.op = "change" =>
          \A key \in (BagKeys(errors) \cup BagKeys(errors')) \ {last'.path} :
              SameEntry(errors, errors', key)]_vars

\* Where the last operation did a step, and where it emitted 'change'.
StepAt(what) == CHOOSE i \in 1..Len(log) : log[i] = Step(what)
ChangeAt == CHOOSE i \in 1..Len(log) : <<log[i]>> = Emitted("change")

\* Nothing of a timer callback is among what the last operation did.
NoPauseWithin == Emitted("paused") = <<>> /\ Emitted("paused:") = <<>>

====
